---- MODULE Spec2Model ----
(***************************************************************************)
(* A model of the scripts of glowlabs-org/gca-backend:                     *)
(*   - the weighted-average carbon computations (solar_value_map.py,       *)
(*     carbon_credits_per_kw.py),                                          *)
(*   - the NASA solar download with its thread pool (download_sun_data.py),*)
(*   - the monthly MOER download (wt_api_hist_download.py),                *)
(*   - the sync-file monitor (restart-monitor.py) and the test-data writer *)
(*     (update-file.py).                                                   *)
(* Each script is a specification of its own over the shared variables;    *)
(* the variables of the scripts that do not run keep their initial value.  *)
(***************************************************************************)
EXTENDS Integers, Sequences, FiniteSets, TLC

VARIABLES
    \* ---- carbon computations
    solar,        \* the ALLSKY_SFC_SW_DWN items of one NASA point, in dict order
    baKnown,      \* whether the BA has a MOER history (ba_histories.get(ba))
    glowOut,      \* outcome of compute_glow_strength, or "idle"
    creditsOut,   \* outcome of calculate_carbon_credits, or "idle"
    oldLoopOut,   \* outcome of one point of the older solar_value_map loop
    \* ---- NASA solar download (download_sun_data.py)
    script,       \* which download_sun_data.py runs: "old" (watttime-scripts,
                  \* no neighbour derivation) or "new" (scripts/watttime)
    nasa,         \* what the NASA API holds: point -> parameter data
    failBudget,   \* how many more requests the remote API will fail
    files,        \* data/nasa/<lat>/<lon>.json: point -> file
    dirs,         \* the latitudes whose folder data/nasa/<lat> exists
    queue,        \* the executor's work queue: the submitted calls, in order
    next,         \* index in queue of the next call a free worker takes
    pool,         \* the worker threads of the executor
    run,          \* how many times the script was started
    wTask,        \* worker -> the call it runs: [pt, step]
    wPc,          \* worker -> where it is in fetch_and_save
    wAttempt,     \* worker -> the local variable attempt
    wNbr,         \* worker -> index of the neighbour file it reads next
    wParams,      \* worker -> neighbor_params read so far
    wData,        \* worker -> the data it is about to save
    wSaveFor,     \* worker -> who called save_to_disk: "derive" or "fetch"
    \* ---- history variables of the download
    wReqs,        \* worker -> HTTP requests of its current call
    wSleeps,      \* worker -> 15-second sleeps of its current call
    wDerive,      \* worker -> whether its current call tried a derivation
    runReqs,      \* the points requested from the API in the current run
    filesAtStart, \* files as they were when the current run started
    \* ---- monthly MOER download (wt_api_hist_download.py)
    moerFiles,    \* data/<ba>/<ba>_2024-MM_MOER.json: <<ba, month>> -> 0 when
                  \* absent, else the number of the run that wrote it (a file
                  \* that was there before the first run holds OldData)
    mPc,          \* "loop" in the loop over the months, "exited" after
                  \* sys.exit, "done" at the end of the script
    mBa,          \* the BA region fetch_all_ba_data is at
    mMonth,       \* the loop variable month
    mRun,         \* how many times the script was started
    mFailBudget,  \* how many more requests the API will fail
    \* ---- history variables of the MOER download
    mRequested,   \* the files requested from the API in the current run
    mFetched,     \* <<ba, month>> -> how often its request has succeeded
    mAtStart,     \* the files that existed when the current run started
    \* ---- sync-file monitor (restart-monitor.py)
    argv1,        \* sys.argv[1]: "production", "absent", "number" (an integer,
                  \* the check delay of testing mode) or "word" (anything else)
    checkDelay,   \* _check_delay_sec after the arguments are read
    rebootDelay,  \* _reboot_delay_sec after the arguments are read
    monPc,        \* "off", "sleeping", "check", "cmd1", "cmd2" or "exited"
    syncState,    \* last-sync.txt: "missing", "invalid" or "ts" (a timestamp)
    syncAge,      \* current time minus the timestamp in last-sync.txt
    uptime,       \* time since the monitor process was started
    slept,        \* time since the running time.sleep began
    ran,          \* the shell commands executed so far
    issued,       \* the commands of the running threshold handler, in order
    killOk,       \* whether the last kill command succeeded
    exitStatus,   \* exit status of the monitor process, -1 while it runs
    exitCause,    \* why the monitor ended
    rebootPending,\* a real reboot command was executed, the system is still up
    \* ---- test-data writer (update-file.py)
    ufPc,         \* "off", "script", "ended", "manage", "sleep" or "crashed"
    ufLines,      \* lines of /opt/halki/energy_data.csv, -1 when it is missing
    \* ---- MOER histories (load_ba_histories of solar_value_map.py)
    hPc,          \* "off", "loading" (in the loop over the entries) or "done"
    hEntries,     \* how many entries the loop has gone through
    hArray,       \* the indexes of ba_array that were written
    hSkipped,     \* the timestamps answered with "out of bounds"
    \* ---- the WattTime token of a looping script
    tkScript,     \* "sweep" (sweep.py), "heatmap" (heatmap-ba-grid.py) or
                  \* "hist" (wt_api_hist_from_ba_map.py)
    tkPc,         \* "off", "start", "loop", "done" or "exited"
    tkAge,        \* minutes since get_token returned the token in use
    tkPoint,      \* how many items the loop has gone through
    tkUnknown,    \* heatmap: lines written with ba 'UNKNOWN'
    tkMaxSentAge, \* the oldest age at which the token was sent in a request
    \* ---- login script (wt_api_login.py)
    lgPc,         \* "off", "start", "open", "write", "written", "failed" or
                  \* "crashed"
    lgStatus,     \* rsp.status_code of the login request, 0 before it
    lgToken,      \* rsp.json()['token'], "none" when there is none
    tokenFile,    \* the file 'token': "absent", "empty" or its contents
    lgRun,        \* how many times the script was started
    lgBefore,     \* the file 'token' when the current run started
    \* ---- the sweep (sweep.py, sweep_threads.py)
    swScript,     \* "sweep" (sweep.py) or "threads" (sweep_threads.py)
    swKind,       \* grid point -> what the APIs answer for it
    swPc,         \* "off", "start", "loop", "done", "interrupted" or "exited"
    swRun,        \* how many times the script was started
    swPrev,       \* how the run before the current one ended
    swTodo,       \* the coordinates the current run has yet to process
    swRows,       \* grid point -> its rows in carbon_credits_sweep.csv
    swLast,       \* the point of the last row of the CSV, NoPoint if none
    swDoomed      \* threads: a future holds the SystemExit of a worker

carbonVars == <<solar, baKnown, glowOut, creditsOut, oldLoopOut>>

diskVars == <<files, dirs>>

workerVars == <<wTask, wPc, wAttempt, wNbr, wParams, wData, wSaveFor,
                wReqs, wSleeps, wDerive>>

downloadVars == <<script, nasa, failBudget, diskVars, queue, next, pool, run,
                  workerVars, runReqs, filesAtStart>>

moerVars == <<moerFiles, mPc, mBa, mMonth, mRun, mFailBudget,
              mRequested, mFetched, mAtStart>>

monArgs == <<argv1, checkDelay, rebootDelay>>

monVars == <<monArgs, monPc, syncState, syncAge, uptime, slept, ran, issued,
             killOk, exitStatus, exitCause, rebootPending>>

ufVars == <<ufPc, ufLines>>

histVars == <<hPc, hEntries, hArray, hSkipped>>

\* the variables of the scripts modelled further below
tokenVars == <<tkScript, tkPc, tkAge, tkPoint, tkUnknown, tkMaxSentAge>>

loginVars == <<lgPc, lgStatus, lgToken, tokenFile, lgRun, lgBefore>>

sweepVars == <<swScript, swKind, swPc, swRun, swPrev, swTodo, swRows, swLast,
               swDoomed>>

otherVars == <<histVars, tokenVars, loginVars, sweepVars>>

vars == <<carbonVars, downloadVars, moerVars, monVars, ufVars, otherVars>>

notCarbonVars == <<downloadVars, moerVars, monVars, ufVars, otherVars>>

notDownloadVars == <<carbonVars, moerVars, monVars, ufVars, otherVars>>

notMoerVars == <<carbonVars, downloadVars, monVars, ufVars, otherVars>>

notMonVars == <<carbonVars, downloadVars, moerVars, ufVars, otherVars>>

notUfVars == <<carbonVars, downloadVars, moerVars, monVars, otherVars>>

mainVars == <<carbonVars, downloadVars, moerVars, monVars, ufVars>>

notHistVars == <<mainVars, tokenVars, loginVars, sweepVars>>

notTokenVars == <<mainVars, histVars, loginVars, sweepVars>>

notLoginVars == <<mainVars, histVars, tokenVars, sweepVars>>

notSweepVars == <<mainVars, histVars, tokenVars, loginVars>>

\* a NASA value: None, or an integer number of W/m^2
NoneSun == [isNone |-> TRUE, w |-> 0]

Sun(w) == [isNone |-> FALSE, w |-> w]

\* the outcome of a computation: not run yet ("idle"), returned None,
\* returned the value num/den (over `hours` counted hours), or raised
\* ZeroDivisionError; with the divisors the run evaluated
Outcome(st, divs, n, d, h) ==
    [status |-> st, divisors |-> divs, num |-> n, den |-> d, hours |-> h]

Idle == Outcome("idle", {}, 0, 0, 0)

ReturnedNone == Outcome("None", {}, 0, 0, 0)

----------------------------------------------------------------------------
(***************************************************************************)
(* Carbon computations.                                                    *)
(*                                                                         *)
(* One hour of input is [sun, keyOk, moer]: the NASA value of the hour     *)
(* (None, or W/m^2 as an integer; NASA fills gaps with negative numbers),  *)
(* whether its key parses as %Y%m%d%H, and the 5-minute MOER readings      *)
(* that fall in the hour (empty when the BA has none).  Sums are kept as   *)
(* integers: sun in W (the code adds sun/1000) and MOER in lbs (the code   *)
(* adds mean/2204.62), so a sum is zero here exactly when the sum of the   *)
(* code's terms is zero.                                                   *)
(***************************************************************************)
MaxHours == 2

SunValues == {NoneSun} \cup {Sun(w) : w \in {-1, 0, 1, 2}}

MoerLists == {<<>>, <<4>>, <<2, 4>>}

Hours == [sun : SunValues, keyOk : BOOLEAN, moer : MoerLists]

SolarInputs == UNION {[1..n -> Hours] : n \in 0..MaxHours}

RECURSIVE SumSeq(_)
SumSeq(s) == IF s = <<>> THEN 0 ELSE Head(s) + SumSeq(Tail(s))

\* the mean of an hour's readings (np.mean, sum()/len()); the lists of
\* MoerLists have integer means
MeanMoer(m) == SumSeq(m) \div Len(m)

\* the loop of compute_glow_strength over the hours: the running
\* totals [kwh, moer] after the hours of s
RECURSIVE GlowTotals(_, _)
GlowTotals(s, acc) ==
    IF s = <<>> THEN acc
    ELSE LET h == Head(s) IN
         IF h.sun.isNone \/ ~h.keyOk \/ Len(h.moer) = 0
         THEN GlowTotals(Tail(s), acc)
         ELSE GlowTotals(Tail(s),
                  [kwh  |-> acc.kwh + h.sun.w,
                   moer |-> acc.moer + MeanMoer(h.moer) * h.sun.w])

\* the guard in front of the division in compute_glow_strength
GlowGuard(t) == t.kwh = 0

\* avg_moer_lbs / 2204.62: pounds in a metric ton, times 100
LbsPerTonTimes100 == 220462

\* avg_moer_per_kwh * 1000.0
KwhPerMwh == 1000

\* cc_per_mwh as the fraction num/den.  With kwh the sum of the sun values
\* in W and moer the sum of mean * sun in lbs * W, the code's total_moer is
\* moer / (2204.62 * 1000) and its total_kwh is kwh / 1000; their quotient
\* is multiplied by 1000.
GlowNum(t) == t.moer * 100 * KwhPerMwh

GlowDen(t) == t.kwh * LbsPerTonTimes100

\* compute_glow_strength: the value returned and the divisors it evaluated
compute_glow_strength(known, s) ==
    IF ~known THEN ReturnedNone
    ELSE LET t == GlowTotals(s, [kwh |-> 0, moer |-> 0]) IN
         IF GlowGuard(t)
         THEN ReturnedNone
         ELSE Outcome(IF t.kwh = 0 THEN "ZeroDivisionError" ELSE "value",
                      {t.kwh}, GlowNum(t), GlowDen(t), 0)

\* the loop of calculate_carbon_credits (and of the older solar_value_map
\* script) over the hours: the running totals [kwh, moer, hours]
RECURSIVE CreditTotals(_, _)
CreditTotals(s, acc) ==
    IF s = <<>> THEN acc
    ELSE LET h == Head(s) IN
         IF h.sun.isNone \/ Len(h.moer) = 0
         THEN CreditTotals(Tail(s), acc)
         ELSE CreditTotals(Tail(s),
                  [kwh   |-> acc.kwh + h.sun.w,
                   moer  |-> acc.moer + MeanMoer(h.moer) * h.sun.w,
                   hours |-> acc.hours + 1])

\* the two divisions that follow the loop: total_moer / total_kwh, then
\* total_kwh / total_hours.  A zero divisor raises ZeroDivisionError.
CreditDivisions(t) ==
    IF t.kwh = 0
    THEN Outcome("ZeroDivisionError", {t.kwh}, 0, 0, 0)
    ELSE IF t.hours = 0
    THEN Outcome("ZeroDivisionError", {t.kwh, t.hours}, 0, 0, 0)
    ELSE Outcome("value", {t.kwh, t.hours}, t.moer, t.kwh, t.hours)

calculate_carbon_credits(s) ==
    CreditDivisions(CreditTotals(s, [kwh |-> 0, moer |-> 0, hours |-> 0]))

\* one (lat, lon) point of the older script: no BA history skips the point
old_solar_value_point(known, s) ==
    IF ~known THEN ReturnedNone
    ELSE CreditDivisions(CreditTotals(s, [kwh |-> 0, moer |-> 0, hours |-> 0]))

CarbonStart ==
    /\ solar \in SolarInputs
    /\ baKnown \in BOOLEAN
    /\ glowOut = Idle
    /\ creditsOut = Idle
    /\ oldLoopOut = Idle

ComputeGlowStrength ==
    /\ glowOut = Idle
    /\ glowOut' = compute_glow_strength(baKnown, solar)
    /\ UNCHANGED <<solar, baKnown, creditsOut, oldLoopOut, notCarbonVars>>

CalculateCarbonCredits ==
    /\ creditsOut = Idle
    /\ creditsOut' = calculate_carbon_credits(solar)
    /\ UNCHANGED <<solar, baKnown, glowOut, oldLoopOut, notCarbonVars>>

OldSolarValuePoint ==
    /\ oldLoopOut = Idle
    /\ oldLoopOut' = old_solar_value_point(baKnown, solar)
    /\ UNCHANGED <<solar, baKnown, glowOut, creditsOut, notCarbonVars>>

CarbonNext ==
    \/ ComputeGlowStrength
    \/ CalculateCarbonCredits
    \/ OldSolarValuePoint

----------------------------------------------------------------------------
(***************************************************************************)
(* The NASA solar download.  Coordinates are counted in units of the       *)
(* finest step of the grid (0.2 degrees), from the grid's origin.          *)
(***************************************************************************)
GridMax == 2          \* stop_lat and stop_lon, in grid units

NumPasses == 2        \* passes of main; the step halves from pass to pass

max_retries == 30

MaxApiFailures == 2   \* failed requests of the API during a whole download

MaxRuns == 2          \* how often the download is started

NumWorkers == 2       \* threads of the pool that are modelled

\* what data['properties']['parameter'] of a response can be; NoParameter
\* is a response without that key (get_parameter_data returns None)
NoParameter == 0

ParamValues == {NoParameter, 1, 2}

RECURSIVE Pow2(_)
Pow2(n) == IF n = 0 THEN 1 ELSE 2 * Pow2(n - 1)

\* step_size of pass number pass_num (0-based): initial_step_size / 2^pass_num
StepOfPass(pass_num) == Pow2(NumPasses - 1 - pass_num)

\* generate_grid(0, GridMax, step), in order
generate_grid(step) == [i \in 1..(GridMax \div step + 1) |-> (i - 1) * step]

AllPoints == {<<a, b>> : a \in 0..GridMax, b \in 0..GridMax}

\* the calls one pass submits: for latitude in latitudes: for longitude in
\* longitudes: submit(fetch_and_save, latitude, longitude, step_size)
PassTasks(step) ==
    LET g == generate_grid(step)
        n == Len(g)
    IN [i \in 1..(n * n) |->
            [pt |-> <<g[(i - 1) \div n + 1], g[((i - 1) % n) + 1]>>, step |-> step]]

\* everything main submits: the passes one after the other (the new script);
\* the old script has the one pass at the finest step
RECURSIVE SubmittedFrom(_)
SubmittedFrom(pass_num) ==
    IF pass_num >= NumPasses THEN <<>>
    ELSE PassTasks(StepOfPass(pass_num)) \o SubmittedFrom(pass_num + 1)

main(which) == IF which = "new" THEN SubmittedFrom(0) ELSE PassTasks(1)

\* a file of data/nasa: absent, opened for writing and not yet complete
\* ("partial"), or holding the response for point `origin`
Absent == [state |-> "absent", origin |-> <<0, 0>>, param |-> 0]

Partial == [state |-> "partial", origin |-> <<0, 0>>, param |-> 0]

Full(origin, param) == [state |-> "full", origin |-> origin, param |-> param]

\* os.path.isfile
isfile(p) == p \in DOMAIN files /\ files[p].state # "absent"

\* the 4 cardinal neighbours of try_to_derive_data, in the order N, S, W, E
Neighbors(p, step) ==
    << <<p[1] - step, p[2]>>, <<p[1] + step, p[2]>>,
       <<p[1], p[2] - step>>, <<p[1], p[2] + step>> >>

NoTask == [pt |-> <<0, 0>>, step |-> 0]

Terminal == {"idle", "skipped", "derived", "saved", "gaveup", "raised"}

\* the worker-local variables other than wPc, all unchanged
LocalsUnchanged ==
    UNCHANGED <<wTask, wAttempt, wNbr, wParams, wData, wSaveFor,
                wReqs, wSleeps, wDerive>>

EnvUnchanged ==
    UNCHANGED <<notDownloadVars, script, nasa, queue, pool, run, filesAtStart>>

\* a free worker takes the next submitted call
Take(w) ==
    /\ wPc[w] \in Terminal
    /\ next <= Len(queue)
    /\ wTask' = [wTask EXCEPT ![w] = queue[next]]
    /\ wPc' = [wPc EXCEPT ![w] = "start"]
    /\ wAttempt' = [wAttempt EXCEPT ![w] = 0]
    /\ wNbr' = [wNbr EXCEPT ![w] = 0]
    /\ wParams' = [wParams EXCEPT ![w] = <<>>]
    /\ wData' = [wData EXCEPT ![w] = Absent]
    /\ wSaveFor' = [wSaveFor EXCEPT ![w] = "none"]
    /\ wReqs' = [wReqs EXCEPT ![w] = 0]
    /\ wSleeps' = [wSleeps EXCEPT ![w] = 0]
    /\ wDerive' = [wDerive EXCEPT ![w] = FALSE]
    /\ next' = next + 1
    /\ UNCHANGED <<failBudget, diskVars, runReqs>>
    /\ EnvUnchanged

\* a cache test that never finds the file
CacheNeverHits(w) == FALSE

\* the cache test of fetch_and_save
CacheHit(w) == isfile(wTask[w].pt)

\* fetch_and_save, first lines: return if the file already exists
CheckExists(w) ==
    /\ wPc[w] = "start"
    /\ wPc' = [wPc EXCEPT ![w] =
                  IF CacheHit(w) THEN "skipped"
                  ELSE IF script = "new" THEN "derive" ELSE "fetch"]
    /\ LocalsUnchanged
    /\ UNCHANGED <<failBudget, diskVars, next, runReqs>>
    /\ EnvUnchanged

\* try_to_derive_data, first loop: one missing neighbour file returns False
DeriveNeighbors(w) ==
    /\ wPc[w] = "derive"
    /\ LET nb == Neighbors(wTask[w].pt, wTask[w].step) IN
       wPc' = [wPc EXCEPT ![w] =
                  IF \A k \in 1..4 : isfile(nb[k]) THEN "read" ELSE "fetch"]
    /\ wNbr' = [wNbr EXCEPT ![w] = 1]
    /\ wDerive' = [wDerive EXCEPT ![w] = TRUE]
    /\ UNCHANGED <<wTask, wAttempt, wParams, wData, wSaveFor, wReqs, wSleeps>>
    /\ UNCHANGED <<failBudget, diskVars, next, runReqs>>
    /\ EnvUnchanged

\* try_to_derive_data, second loop: json.load of one neighbour file.  A file
\* another thread has opened for writing and not completed does not parse:
\* the JSONDecodeError is caught nowhere and ends the call.
DeriveRead(w) ==
    /\ wPc[w] = "read"
    /\ LET nb == Neighbors(wTask[w].pt, wTask[w].step)
           f  == files[nb[wNbr[w]]]
       IN IF f.state # "full"
          THEN /\ wPc' = [wPc EXCEPT ![w] = "raised"]
               /\ UNCHANGED <<wNbr, wParams>>
          ELSE IF f.param = NoParameter
          THEN /\ wPc' = [wPc EXCEPT ![w] = "fetch"]
               /\ UNCHANGED <<wNbr, wParams>>
          ELSE LET ps == Append(wParams[w], f.param) IN
               /\ wParams' = [wParams EXCEPT ![w] = ps]
               /\ wNbr' = [wNbr EXCEPT ![w] = wNbr[w] + 1]
               /\ wPc' = [wPc EXCEPT ![w] =
                     IF wNbr[w] < 4 THEN "read"
                     ELSE IF \A k \in 2..4 : ps[k] = ps[1] THEN "copy"
                     ELSE "fetch"]
    /\ UNCHANGED <<wTask, wAttempt, wData, wSaveFor, wReqs, wSleeps, wDerive>>
    /\ UNCHANGED <<failBudget, diskVars, next, runReqs>>
    /\ EnvUnchanged

\* try_to_derive_data, the copy: neighbors[0] is opened and loaded again
DeriveCopy(w) ==
    /\ wPc[w] = "copy"
    /\ LET f == files[Neighbors(wTask[w].pt, wTask[w].step)[1]] IN
       IF f.state # "full"
       THEN /\ wPc' = [wPc EXCEPT ![w] = "raised"]
            /\ UNCHANGED <<wData, wSaveFor>>
       ELSE /\ wPc' = [wPc EXCEPT ![w] = "chkdir"]
            /\ wData' = [wData EXCEPT ![w] = f]
            /\ wSaveFor' = [wSaveFor EXCEPT ![w] = "derive"]
    /\ UNCHANGED <<wTask, wAttempt, wNbr, wParams, wReqs, wSleeps, wDerive>>
    /\ UNCHANGED <<failBudget, diskVars, next, runReqs>>
    /\ EnvUnchanged

\* the loop test of the retry loop
MayAttempt(w) == wAttempt[w] < max_retries

\* whether a failed attempt is followed by the 15-second sleep
SleepsAfter(attempt) == attempt < max_retries

\* the except branch of the retry loop: count the attempt, then sleep or
\* give up
AttemptFailed(w) ==
    /\ wAttempt' = [wAttempt EXCEPT ![w] = wAttempt[w] + 1]
    /\ wPc' = [wPc EXCEPT ![w] =
                  IF SleepsAfter(wAttempt[w] + 1) THEN "sleep" ELSE "gaveup"]

\* one attempt of the retry loop, up to the answer of fetch_nasa_data
Fetch(w) ==
    /\ wPc[w] = "fetch"
    /\ MayAttempt(w)
    /\ wReqs' = [wReqs EXCEPT ![w] = wReqs[w] + 1]
    /\ runReqs' = runReqs \cup {wTask[w].pt}
    /\ \/ /\ wPc' = [wPc EXCEPT ![w] = "chkdir"]
          /\ wData' = [wData EXCEPT ![w] = Full(wTask[w].pt, nasa[wTask[w].pt])]
          /\ wSaveFor' = [wSaveFor EXCEPT ![w] = "fetch"]
          /\ UNCHANGED <<wAttempt, failBudget>>
       \/ /\ failBudget > 0
          /\ failBudget' = failBudget - 1
          /\ AttemptFailed(w)
          /\ UNCHANGED <<wData, wSaveFor>>
    /\ UNCHANGED <<wTask, wNbr, wParams, wSleeps, wDerive>>
    /\ UNCHANGED <<diskVars, next>>
    /\ EnvUnchanged

\* time.sleep(15), then the loop test again
Sleep(w) ==
    /\ wPc[w] = "sleep"
    /\ wSleeps' = [wSleeps EXCEPT ![w] = wSleeps[w] + 1]
    /\ wPc' = [wPc EXCEPT ![w] = "fetch"]
    /\ UNCHANGED <<wTask, wAttempt, wNbr, wParams, wData, wSaveFor, wReqs, wDerive>>
    /\ UNCHANGED <<failBudget, diskVars, next, runReqs>>
    /\ EnvUnchanged

\* save_to_disk: if not os.path.exists(folder_path)
SaveCheckDir(w) ==
    /\ wPc[w] = "chkdir"
    /\ wPc' = [wPc EXCEPT ![w] =
                  IF wTask[w].pt[1] \in dirs THEN "open" ELSE "mkdir"]
    /\ LocalsUnchanged
    /\ UNCHANGED <<failBudget, diskVars, next, runReqs>>
    /\ EnvUnchanged

\* save_to_disk: os.makedirs(folder_path).  It raises FileExistsError when
\* another thread made the folder since the test; the retry loop catches it
\* as a failed attempt, try_to_derive_data does not catch it.
SaveMakeDirs(w) ==
    /\ wPc[w] = "mkdir"
    /\ IF wTask[w].pt[1] \in dirs
       THEN /\ IF wSaveFor[w] = "fetch"
               THEN AttemptFailed(w)
               ELSE /\ wPc' = [wPc EXCEPT ![w] = "raised"]
                    /\ UNCHANGED wAttempt
            /\ UNCHANGED dirs
       ELSE /\ dirs' = dirs \cup {wTask[w].pt[1]}
            /\ wPc' = [wPc EXCEPT ![w] = "open"]
            /\ UNCHANGED wAttempt
    /\ UNCHANGED <<wTask, wNbr, wParams, wData, wSaveFor, wReqs, wSleeps, wDerive>>
    /\ UNCHANGED <<failBudget, files, next, runReqs>>
    /\ EnvUnchanged

\* save_to_disk: open(file_path, 'w') truncates the file
SaveOpen(w) ==
    /\ wPc[w] = "open"
    /\ files' = [files EXCEPT ![wTask[w].pt] = Partial]
    /\ wPc' = [wPc EXCEPT ![w] = "dump"]
    /\ LocalsUnchanged
    /\ UNCHANGED <<failBudget, dirs, next, runReqs>>
    /\ EnvUnchanged

\* save_to_disk: json.dump and the close of the file; the call returns
SaveDump(w) ==
    /\ wPc[w] = "dump"
    /\ files' = [files EXCEPT ![wTask[w].pt] = wData[w]]
    /\ wPc' = [wPc EXCEPT ![w] =
                  IF wSaveFor[w] = "derive" THEN "derived" ELSE "saved"]
    /\ LocalsUnchanged
    /\ UNCHANGED <<failBudget, dirs, next, runReqs>>
    /\ EnvUnchanged

\* the executor has shut down: every submitted call has ended
AllCallsEnded == next > Len(queue) /\ \A w \in pool : wPc[w] \in Terminal

\* the script has ended and is started again: a new process with a new pool
StartAgain ==
    /\ AllCallsEnded
    /\ run < MaxRuns
    /\ run' = run + 1
    /\ next' = 1
    /\ wTask' = [w \in pool |-> NoTask]
    /\ wPc' = [w \in pool |-> "idle"]
    /\ wAttempt' = [w \in pool |-> 0]
    /\ wNbr' = [w \in pool |-> 0]
    /\ wParams' = [w \in pool |-> <<>>]
    /\ wData' = [w \in pool |-> Absent]
    /\ wSaveFor' = [w \in pool |-> "none"]
    /\ wReqs' = [w \in pool |-> 0]
    /\ wSleeps' = [w \in pool |-> 0]
    /\ wDerive' = [w \in pool |-> FALSE]
    /\ runReqs' = {}
    /\ filesAtStart' = files
    /\ UNCHANGED <<notDownloadVars, script, nasa, failBudget, diskVars, queue, pool>>

\* one step of the call worker w runs
fetch_and_save(w) ==
    \/ CheckExists(w)
    \/ DeriveNeighbors(w)
    \/ DeriveRead(w)
    \/ DeriveCopy(w)
    \/ Fetch(w)
    \/ Sleep(w)
    \/ SaveCheckDir(w)
    \/ SaveMakeDirs(w)
    \/ SaveOpen(w)
    \/ SaveDump(w)

----------------------------------------------------------------------------
(***************************************************************************)
(* The monthly MOER download: fetch_all_ba_data calls                      *)
(* fetch_and_save_historical_data for one BA region after the other.       *)
(***************************************************************************)
NumMonths == 12       \* for month in range(1, 13)

NumBAs == 2           \* BA regions of data/ba_maps.json

MaxMoerRuns == 3      \* how often the script is started

MaxMoerFailures == 2  \* failed requests of the API over all runs

MaxOldFiles == 1      \* month files that exist before the first run

OldData == 99         \* what a file from before the first run holds

MoerKeys == (1..NumBAs) \X (1..NumMonths)

\* a test that never finds the month file
MonthFileNeverExists(ba, month) == FALSE

\* path.exists(file_path)
MonthFileExists(ba, month) == moerFiles[<<ba, month>>] # 0

\* the loop goes on to the next month; after December the function returns
\* and fetch_all_ba_data goes on to the next region, or the script ends
MoerAdvance ==
    IF mMonth < NumMonths
    THEN /\ mMonth' = mMonth + 1
         /\ UNCHANGED <<mBa, mPc>>
    ELSE IF mBa < NumBAs
    THEN /\ mMonth' = 1
         /\ mBa' = mBa + 1
         /\ UNCHANGED mPc
    ELSE /\ mPc' = "done"
         /\ UNCHANGED <<mBa, mMonth>>

\* one iteration of the loop whose file exists: pass
MonthCached ==
    /\ mPc = "loop"
    /\ MonthFileExists(mBa, mMonth)
    /\ MoerAdvance
    /\ UNCHANGED <<moerFiles, mRun, mFailBudget, mRequested, mFetched, mAtStart>>
    /\ UNCHANGED notMoerVars

\* one iteration whose file is missing and whose request succeeds:
\* json.dump(dat, f)
MonthFetched ==
    /\ mPc = "loop"
    /\ ~MonthFileExists(mBa, mMonth)
    /\ mRequested' = mRequested \cup {<<mBa, mMonth>>}
    /\ moerFiles' = [moerFiles EXCEPT ![<<mBa, mMonth>>] = mRun]
    /\ mFetched' = [mFetched EXCEPT ![<<mBa, mMonth>>] = @ + 1]
    /\ MoerAdvance
    /\ UNCHANGED <<mRun, mFailBudget, mAtStart>>
    /\ UNCHANGED notMoerVars

\* one iteration whose file is missing and whose request fails
\* (get_historical_data returns None): sys.exit("error downloading data")
MonthFailed ==
    /\ mPc = "loop"
    /\ ~MonthFileExists(mBa, mMonth)
    /\ mFailBudget > 0
    /\ mFailBudget' = mFailBudget - 1
    /\ mRequested' = mRequested \cup {<<mBa, mMonth>>}
    /\ mPc' = "exited"
    /\ UNCHANGED <<moerFiles, mBa, mMonth, mRun, mFetched, mAtStart>>
    /\ UNCHANGED notMoerVars

\* the script is started again
MoerStartAgain ==
    /\ mPc \in {"exited", "done"}
    /\ mRun < MaxMoerRuns
    /\ mRun' = mRun + 1
    /\ mPc' = "loop"
    /\ mBa' = 1
    /\ mMonth' = 1
    /\ mRequested' = {}
    /\ mAtStart' = {k \in MoerKeys : moerFiles[k] # 0}
    /\ UNCHANGED <<moerFiles, mFailBudget, mFetched>>
    /\ UNCHANGED notMoerVars

MoerNext ==
    \/ MonthCached
    \/ MonthFetched
    \/ MonthFailed
    \/ MoerStartAgain

----------------------------------------------------------------------------
(***************************************************************************)
(* The sync-file monitor.  Time is counted in units of the default check   *)
(* interval (_check_delay_sec, 7200 s).  The code reads the clock only to  *)
(* write it to the sync file and to compare `current_ts - saved_ts` with   *)
(* _reboot_delay_sec, so the model keeps the differences: they stop        *)
(* growing one unit past the reboot delay, where the comparison no longer  *)
(* changes.                                                                *)
(***************************************************************************)
reboot_delay_sec == 86400

check_delay_sec == 7200

DefaultRebootDelay == reboot_delay_sec \div check_delay_sec

DefaultCheckDelay == check_delay_sec \div check_delay_sec

MaxCheckDelay == 2    \* largest check delay given on the command line

MaxRebootDelay == 2   \* largest reboot delay given on the command line

\* int(sys.argv[k]) accepts negative numbers too
CheckDelays == (-1..MaxCheckDelay) \cup {DefaultCheckDelay}

RebootDelays == (-1..MaxRebootDelay) \cup {DefaultRebootDelay}

\* the source writes the command substitution with backquotes, which a
\* string of this language cannot hold
glow_monitor_kill_cmd == "sudo kill -usr2 $(pidof glow-monitor)"

reboot_cmd == "sudo reboot"

echo(cmd) == "echo '" \o cmd \o "'"

RealCommands == {glow_monitor_kill_cmd, reboot_cmd}

\* a monitor that takes every invocation for production
AlwaysProduction == TRUE

\* _production_mode as __main__ sets it
production_mode == argv1 = "production"

\* a time difference one unit later
Later(d) == IF d <= rebootDelay THEN d + 1 ELSE d

\* time passes
Tick ==
    /\ syncAge' = IF syncState = "ts" THEN Later(syncAge) ELSE syncAge
    /\ uptime' = IF monPc \in {"off", "exited"} THEN uptime ELSE Later(uptime)
    /\ slept' = IF monPc = "sleeping" /\ slept < checkDelay THEN slept + 1 ELSE slept
    /\ \/ syncAge' # syncAge
       \/ uptime' # uptime
       \/ slept' # slept
       \/ monPc \in {"sleeping", "check", "cmd1", "cmd2"}
    /\ UNCHANGED <<monArgs, monPc, syncState, ran, issued, killOk, exitStatus,
                   exitCause, rebootPending>>
    /\ UNCHANGED notMonVars

\* a monitor without the write at startup
NoStartupWrite == FALSE

\* whether __main__ calls update_timestamp before the loop
WritesAtStartup == TRUE

\* a loop that ends after one round
LoopEnds == FALSE

\* the loop condition of __main__: while True
LoopGoesOn == TRUE

\* where the script is after a check that raised nothing
AfterCheck == IF LoopGoesOn THEN "sleeping" ELSE "exited"

\* __main__ up to the loop: the arguments are read (int() of a word that is
\* no number raises ValueError, which nothing catches), the signal handlers
\* are set and update_timestamp writes the current time to the sync file
MonStart ==
    /\ monPc = "off"
    /\ ~rebootPending
    /\ IF argv1 = "word"
       THEN /\ monPc' = "exited"
            /\ exitStatus' = 1
            /\ exitCause' = "argv"
            /\ UNCHANGED <<syncState, syncAge>>
       ELSE /\ monPc' = "sleeping"
            /\ exitStatus' = -1
            /\ exitCause' = "none"
            /\ IF WritesAtStartup
               THEN syncState' = "ts" /\ syncAge' = 0
               ELSE UNCHANGED <<syncState, syncAge>>
    /\ uptime' = 0
    /\ slept' = 0
    /\ issued' = <<>>
    /\ UNCHANGED <<monArgs, ran, killOk, rebootPending>>
    /\ UNCHANGED notMonVars

\* time.sleep(_check_delay_sec) returns
MonWake ==
    /\ monPc = "sleeping"
    /\ checkDelay >= 0
    /\ slept >= checkDelay
    /\ monPc' = "check"
    /\ UNCHANGED <<monArgs, syncState, syncAge, uptime, slept, ran, issued,
                   killOk, exitStatus, exitCause, rebootPending>>
    /\ UNCHANGED notMonVars

\* time.sleep of a negative number raises ValueError: `except Exception`
\* prints "unexpected error" and the script ends
MonSleepError ==
    /\ monPc = "sleeping"
    /\ checkDelay < 0
    /\ monPc' = "exited"
    /\ exitStatus' = 0
    /\ exitCause' = "exception"
    /\ UNCHANGED <<monArgs, syncState, syncAge, uptime, slept, ran, issued,
                   killOk, rebootPending>>
    /\ UNCHANGED notMonVars

\* a test that also fires at exactly the reboot delay
ThresholdReached == syncAge >= rebootDelay

\* the test of check_timestamp
ThresholdExceeded == syncAge > rebootDelay

\* check_timestamp.  sys.exit(1) raises SystemExit, which the loop's
\* `except SystemExit: pass` catches: the script then runs to its end.
MonCheck ==
    /\ monPc = "check"
    /\ IF syncState # "ts"
       THEN /\ monPc' = "exited"
            /\ exitStatus' = 0
            /\ exitCause' = "fatal"
            /\ UNCHANGED <<slept, issued>>
       ELSE IF ThresholdExceeded
       THEN /\ monPc' = "cmd1"
            /\ issued' = <<>>
            /\ UNCHANGED <<slept, exitStatus, exitCause>>
       ELSE /\ monPc' = AfterCheck
            /\ slept' = 0
            /\ UNCHANGED <<issued, exitStatus, exitCause>>
    /\ UNCHANGED <<monArgs, syncState, syncAge, uptime, ran, killOk, rebootPending>>
    /\ UNCHANGED notMonVars

\* a handler that begins with the reboot
RebootFirst == IF production_mode THEN reboot_cmd ELSE echo(reboot_cmd)

\* the commands testing_sync_threshold_handler runs
HandlerCmd1 == IF production_mode THEN glow_monitor_kill_cmd
               ELSE echo(glow_monitor_kill_cmd)

HandlerCmd2 == IF production_mode THEN reboot_cmd ELSE echo(reboot_cmd)

\* subprocess.run(cmd1, shell=True): without check=True a command that fails
\* raises nothing
MonCmd1 ==
    /\ monPc = "cmd1"
    /\ ran' = ran \cup {HandlerCmd1}
    /\ issued' = Append(issued, HandlerCmd1)
    /\ killOk' \in BOOLEAN
    /\ monPc' = "cmd2"
    /\ UNCHANGED <<monArgs, syncState, syncAge, uptime, slept, exitStatus,
                   exitCause, rebootPending>>
    /\ UNCHANGED notMonVars

\* subprocess.run(cmd2, shell=True); the handler returns into the loop
MonCmd2 ==
    /\ monPc = "cmd2"
    /\ ran' = ran \cup {HandlerCmd2}
    /\ issued' = Append(issued, HandlerCmd2)
    /\ rebootPending' = (rebootPending \/ HandlerCmd2 = reboot_cmd)
    /\ monPc' = AfterCheck
    /\ slept' = 0
    /\ UNCHANGED <<monArgs, syncState, syncAge, uptime, killOk, exitStatus,
                   exitCause>>
    /\ UNCHANGED notMonVars

\* SIGINT or SIGTERM: signal_handler calls sys.exit(0)
MonSignal ==
    /\ monPc \in {"sleeping", "check", "cmd1", "cmd2"}
    /\ monPc' = "exited"
    /\ exitStatus' = 0
    /\ exitCause' = "signal"
    /\ UNCHANGED <<monArgs, syncState, syncAge, uptime, slept, ran, issued,
                   killOk, rebootPending>>
    /\ UNCHANGED notMonVars

\* the reboot the monitor asked for: the system goes down, the monitor with
\* it, and the service is started again after the boot
SystemReboot ==
    /\ rebootPending
    /\ rebootPending' = FALSE
    /\ monPc' = "off"
    /\ exitStatus' = -1
    /\ exitCause' = "none"
    /\ UNCHANGED <<monArgs, syncState, syncAge, uptime, slept, ran, issued, killOk>>
    /\ UNCHANGED notMonVars

\* the reboot command failed (sudo refused): the system stays up
RebootRefused ==
    /\ rebootPending
    /\ rebootPending' = FALSE
    /\ UNCHANGED <<monArgs, monPc, syncState, syncAge, uptime, slept, ran,
                   issued, killOk, exitStatus, exitCause>>
    /\ UNCHANGED notMonVars

\* glow-monitor writes the current time to the sync file
ExternalSync ==
    /\ ~(syncState = "ts" /\ syncAge = 0)
    /\ syncState' = "ts"
    /\ syncAge' = 0
    /\ UNCHANGED <<monArgs, monPc, uptime, slept, ran, issued, killOk,
                   exitStatus, exitCause, rebootPending>>
    /\ UNCHANGED notMonVars

\* the sync file is removed, or overwritten with something that is no integer
ExternalDamage ==
    /\ \E st \in {"missing", "invalid"} :
          /\ syncState # st
          /\ syncState' = st
    /\ syncAge' = 0
    /\ UNCHANGED <<monArgs, monPc, uptime, slept, ran, issued, killOk,
                   exitStatus, exitCause, rebootPending>>
    /\ UNCHANGED notMonVars

(***************************************************************************)
(* The test-data writer: main of update-file.py.                           *)
(***************************************************************************)
MaxLines == 11        \* lines of the data file at the start

\* update-file.py run as a script: the module defines manage_file and main
\* and calls neither
UfRunScript ==
    /\ ufPc = "script"
    /\ ufPc' = "ended"
    /\ UNCHANGED ufLines
    /\ UNCHANGED notUfVars

\* manage_file: keep the last 9 lines, append one, write the file back.
\* open(file_path, 'r') of a missing file raises FileNotFoundError.
UfManage ==
    /\ ufPc = "manage"
    /\ IF ufLines < 0
       THEN ufPc' = "crashed" /\ UNCHANGED ufLines
       ELSE /\ ufLines' = (IF ufLines > 9 THEN 9 ELSE ufLines) + 1
            /\ ufPc' = "sleep"
    /\ UNCHANGED notUfVars

\* time.sleep(300), then the loop again
UfSleep ==
    /\ ufPc = "sleep"
    /\ ufPc' = "manage"
    /\ UNCHANGED ufLines
    /\ UNCHANGED notUfVars

\* the data file is removed or replaced
UfExternal ==
    /\ ufPc \in {"manage", "sleep"}
    /\ \E n \in -1..MaxLines :
          /\ n # ufLines
          /\ ufLines' = n
    /\ UNCHANGED ufPc
    /\ UNCHANGED notUfVars

MonNext ==
    \/ Tick
    \/ MonStart
    \/ MonWake
    \/ MonSleepError
    \/ MonCheck
    \/ MonCmd1
    \/ MonCmd2
    \/ MonSignal
    \/ SystemReboot
    \/ RebootRefused
    \/ ExternalSync
    \/ ExternalDamage
    \/ UfRunScript
    \/ UfManage
    \/ UfSleep
    \/ UfExternal

----------------------------------------------------------------------------
(***************************************************************************)
(* Initial states.  A script that does not run keeps its variables at the  *)
(* values below.                                                           *)
(***************************************************************************)
CarbonIdle ==
    /\ solar = <<>>
    /\ baKnown = FALSE
    /\ glowOut = Idle
    /\ creditsOut = Idle
    /\ oldLoopOut = Idle

\* what the API holds: the same parameter data everywhere, but for at most
\* one of the points of OddPoints (other data there, or none)
OddPoints == {<<0, 1>>, <<1, 2>>}

NasaMaps ==
    {[p \in AllPoints |-> 1]}
    \cup {[p \in AllPoints |-> IF p = q THEN v ELSE 1] :
              q \in OddPoints, v \in ParamValues \ {1}}

WorkersIdle(ws) ==
    /\ pool = ws
    /\ wTask = [w \in ws |-> NoTask]
    /\ wPc = [w \in ws |-> "idle"]
    /\ wAttempt = [w \in ws |-> 0]
    /\ wNbr = [w \in ws |-> 0]
    /\ wParams = [w \in ws |-> <<>>]
    /\ wData = [w \in ws |-> Absent]
    /\ wSaveFor = [w \in ws |-> "none"]
    /\ wReqs = [w \in ws |-> 0]
    /\ wSleeps = [w \in ws |-> 0]
    /\ wDerive = [w \in ws |-> FALSE]

DownloadIdle ==
    /\ script = "new"
    /\ nasa = [p \in AllPoints |-> 1]
    /\ failBudget = 0
    /\ files = [p \in AllPoints |-> Absent]
    /\ dirs = {}
    /\ queue = <<>>
    /\ next = 1
    /\ run = 1
    /\ runReqs = {}
    /\ filesAtStart = files
    /\ WorkersIdle({})

MoerIdle ==
    /\ moerFiles = [k \in MoerKeys |-> 0]
    /\ mPc = "done"
    /\ mBa = 1
    /\ mMonth = 1
    /\ mRun = 1
    /\ mFailBudget = 0
    /\ mRequested = {}
    /\ mFetched = [k \in MoerKeys |-> 0]
    /\ mAtStart = {}

MonIdle ==
    /\ argv1 = "absent"
    /\ checkDelay = DefaultCheckDelay
    /\ rebootDelay = DefaultRebootDelay
    /\ monPc = "exited"
    /\ syncState = "missing"
    /\ syncAge = 0
    /\ uptime = 0
    /\ slept = 0
    /\ ran = {}
    /\ issued = <<>>
    /\ killOk = TRUE
    /\ exitStatus = -1
    /\ exitCause = "none"
    /\ rebootPending = FALSE

UfIdle ==
    /\ ufPc = "off"
    /\ ufLines = 0

HistIdle ==
    /\ hPc = "off"
    /\ hEntries = 0
    /\ hArray = {}
    /\ hSkipped = {}

TokenIdle ==
    /\ tkScript = "sweep"
    /\ tkPc = "off"
    /\ tkAge = 0
    /\ tkPoint = 0
    /\ tkUnknown = 0
    /\ tkMaxSentAge = 0

LoginIdle ==
    /\ lgPc = "off"
    /\ lgStatus = 0
    /\ lgToken = "none"
    /\ tokenFile = "absent"
    /\ lgRun = 1
    /\ lgBefore = "absent"

SweepIdle ==
    /\ swScript = "sweep"
    /\ swKind = <<>>
    /\ swPc = "off"
    /\ swRun = 1
    /\ swPrev = "none"
    /\ swTodo = {}
    /\ swRows = <<>>
    /\ swLast = <<-1, -1>>
    /\ swDoomed = FALSE

OthersIdle == HistIdle /\ TokenIdle /\ LoginIdle /\ SweepIdle

\* the command line.  With "production" the second and third argument give
\* the delays, else the first and second do; a missing argument leaves the
\* default.
MonArguments ==
    /\ argv1 \in {"production", "absent", "number", "word"}
    /\ checkDelay \in (IF argv1 \in {"absent", "word"}
                       THEN {DefaultCheckDelay} ELSE CheckDelays)
    /\ rebootDelay \in (IF argv1 \in {"absent", "word"}
                        THEN {DefaultRebootDelay} ELSE RebootDelays)

\* the monitor is about to be started; the sync file is in any state
MonitorStarts ==
    /\ MonArguments
    /\ monPc = "off"
    /\ syncState \in {"missing", "invalid", "ts"}
    /\ syncAge \in (IF syncState = "ts" THEN {0, rebootDelay + 1} ELSE {0})
    /\ uptime = 0
    /\ slept = 0
    /\ ran = {}
    /\ issued = <<>>
    /\ killOk = TRUE
    /\ exitStatus = -1
    /\ exitCause = "none"
    /\ rebootPending = FALSE

\* update-file.py is run as a script, or its main is entered
UpdateFileStarts ==
    /\ ufPc \in {"script", "manage"}
    /\ ufLines \in -1..MaxLines

\* one of the two scripts runs
MonInit ==
    /\ OthersIdle
    /\ CarbonIdle
    /\ DownloadIdle
    /\ MoerIdle
    /\ \/ MonitorStarts /\ UfIdle
       \/ MonIdle /\ UpdateFileStarts

SpecMonitor == MonInit /\ [][MonNext]_vars

\* the monitor's own steps and the clock go on: the interpreter runs the
\* script and time passes.  Signals, reboots and the other writers of the
\* files are not forced.
MonFairness ==
    /\ WF_vars(Tick)
    /\ WF_vars(MonStart)
    /\ WF_vars(MonWake)
    /\ WF_vars(MonSleepError)
    /\ WF_vars(MonCheck)
    /\ WF_vars(MonCmd1)
    /\ WF_vars(MonCmd2)
    /\ WF_vars(UfRunScript)
    /\ WF_vars(UfManage)
    /\ WF_vars(UfSleep)

SpecMonitorFair == MonInit /\ [][MonNext]_vars /\ MonFairness

\* the first start of the MOER download: at most MaxOldFiles month files
\* are there already
MoerInit ==
    /\ OthersIdle
    /\ CarbonIdle
    /\ DownloadIdle
    /\ MonIdle
    /\ UfIdle
    /\ \E old \in SUBSET MoerKeys :
          /\ Cardinality(old) <= MaxOldFiles
          /\ moerFiles = [k \in MoerKeys |-> IF k \in old THEN OldData ELSE 0]
          /\ mAtStart = old
    /\ mPc = "loop"
    /\ mBa = 1
    /\ mMonth = 1
    /\ mRun = 1
    /\ mFailBudget = MaxMoerFailures
    /\ mRequested = {}
    /\ mFetched = [k \in MoerKeys |-> 0]

SpecMoer == MoerInit /\ [][MoerNext]_vars

\* the download as the scripts run it: NumWorkers threads take the
\* submitted calls; data/nasa is empty at the start
PoolInit ==
    /\ OthersIdle
    /\ CarbonIdle
    /\ MoerIdle
    /\ MonIdle
    /\ UfIdle
    /\ script = "new"
    /\ nasa \in NasaMaps
    /\ failBudget = MaxApiFailures
    /\ files = [p \in AllPoints |-> Absent]
    /\ dirs = {}
    /\ queue = main(script)
    /\ next = 1
    /\ run = 1
    /\ runReqs = {}
    /\ filesAtStart = files
    /\ WorkersIdle(1..NumWorkers)

PoolNext ==
    \/ \E w \in pool : Take(w)
    \/ \E w \in pool : CheckExists(w)
    \/ \E w \in pool : DeriveNeighbors(w)
    \/ \E w \in pool : DeriveRead(w)
    \/ \E w \in pool : DeriveCopy(w)
    \/ \E w \in pool : Fetch(w)
    \/ \E w \in pool : Sleep(w)
    \/ \E w \in pool : SaveCheckDir(w)
    \/ \E w \in pool : SaveMakeDirs(w)
    \/ \E w \in pool : SaveOpen(w)
    \/ \E w \in pool : SaveDump(w)

SpecDownloadPool == PoolInit /\ [][PoolNext]_vars

\* the download with one worker thread, either script, started up to
\* MaxRuns times; the API may fail often enough for a call to give up
SeqInit ==
    /\ OthersIdle
    /\ CarbonIdle
    /\ MoerIdle
    /\ MonIdle
    /\ UfIdle
    /\ script \in {"old", "new"}
    /\ nasa \in NasaMaps
    /\ failBudget = max_retries + MaxApiFailures
    /\ files = [p \in AllPoints |-> Absent]
    /\ dirs = {}
    /\ queue = main(script)
    /\ next = 1
    /\ run = 1
    /\ runReqs = {}
    /\ filesAtStart = files
    /\ WorkersIdle({1})

SeqNext ==
    \/ \E w \in pool : Take(w)
    \/ \E w \in pool : CheckExists(w)
    \/ \E w \in pool : DeriveNeighbors(w)
    \/ \E w \in pool : DeriveRead(w)
    \/ \E w \in pool : DeriveCopy(w)
    \/ \E w \in pool : Fetch(w)
    \/ \E w \in pool : Sleep(w)
    \/ \E w \in pool : SaveCheckDir(w)
    \/ \E w \in pool : SaveMakeDirs(w)
    \/ \E w \in pool : SaveOpen(w)
    \/ \E w \in pool : SaveDump(w)
    \/ StartAgain

SpecDownloadSeq == SeqInit /\ [][SeqNext]_vars

CarbonInit ==
    CarbonStart /\ DownloadIdle /\ MoerIdle /\ MonIdle /\ UfIdle /\ OthersIdle

SpecCarbon == CarbonInit /\ [][CarbonNext]_vars

----------------------------------------------------------------------------
(***************************************************************************)
(* The claims about the carbon computations (under SpecCarbon).            *)
(***************************************************************************)

\* C1: every weighted-average carbon computation divides only by a non-zero
\* denominator: for every input, compute_glow_strength,
\* calculate_carbon_credits and the per-point loop of the older
\* solar_value_map script never evaluate total_moer / total_kwh or
\* total_kwh / total_hours with a zero divisor.
C1_NonZeroDivisors ==
    \A o \in {glowOut, creditsOut, oldLoopOut} : 0 \notin o.divisors

\* the part of C1 that the code keeps: compute_glow_strength returns None
\* in front of a zero divisor
C1_GlowStrengthGuarded ==
    /\ 0 \notin glowOut.divisors
    /\ glowOut.status # "ZeroDivisionError"

\* solar data with no usable hour has gone through calculate_carbon_credits
C1_NoUsableHourSeen ==
    /\ solar # <<>>
    /\ \A i \in 1..Len(solar) : solar[i].sun.isNone \/ Len(solar[i].moer) = 0
    /\ creditsOut.status = "ZeroDivisionError"

----------------------------------------------------------------------------
(***************************************************************************)
(* The claims about the NASA download.                                     *)
(***************************************************************************)

\* C2 (as stated): running the download again after a completed run fetches
\* nothing and changes no file.
C2_RerunFetchesNothing ==
    run > 1 => (runReqs = {} /\ files = filesAtStart)

\* every point had its file when the current run started
AllFilesAtStart == \A p \in AllPoints : filesAtStart[p].state = "full"

\* C2 (amended): when the file of a point exists, fetch_and_save for that
\* point issues no HTTP request, attempts no neighbour derivation and leaves
\* every file unchanged; so a run that starts with the file of every point
\* present fetches nothing and changes no file.
C2_SkipIfFileExists ==
    /\ [](\A w \in pool : wPc[w] = "skipped" => (wReqs[w] = 0 /\ ~wDerive[w]))
    /\ [][\A w \in pool :
            (wPc[w] = "start" /\ isfile(wTask[w].pt) /\ fetch_and_save(w))
                => (/\ wPc'[w] = "skipped"
                    /\ files' = files
                    /\ runReqs' = runReqs)]_vars
    /\ []((run > 1 /\ AllFilesAtStart) => (runReqs = {} /\ files = filesAtStart))

\* a second run that started with every file present has ended, and its
\* calls were cache hits
C2_RerunOverFullCache ==
    /\ run = 2
    /\ AllFilesAtStart
    /\ AllCallsEnded
    /\ \A w \in pool : wPc[w] = "skipped"

\* C3: fetch_and_save retries are bounded with a fixed sleep: the call ends
\* without raising, makes at most 30 fetch attempts, stops at the first
\* attempt whose fetch and save both succeed, sleeps after each failed
\* attempt except the 30th, and gives up after the 30th failure.
C3_BoundedRetries ==
    \A w \in pool :
        /\ wPc[w] # "raised"
        /\ wReqs[w] <= 30
        /\ wAttempt[w] <= 30
        /\ wPc[w] = "saved" => (wReqs[w] = wAttempt[w] + 1 /\ wSleeps[w] = wAttempt[w])
        /\ wPc[w] = "gaveup" => (wAttempt[w] = 30 /\ wSleeps[w] = 29)
        /\ wAttempt[w] = 30 => wPc[w] = "gaveup"

\* the part of C3 that the retry loop keeps on its own: everything but
\* "without raising"
C3_RetryLoop ==
    \A w \in pool :
        /\ wReqs[w] <= 30
        /\ wAttempt[w] <= 30
        /\ wPc[w] = "saved" => (wReqs[w] = wAttempt[w] + 1 /\ wSleeps[w] = wAttempt[w])
        /\ wPc[w] = "gaveup" => (wAttempt[w] = 30 /\ wSleeps[w] = 29)
        /\ wAttempt[w] = 30 => wPc[w] = "gaveup"

\* the neighbour files a call for point p at step `step` looks at in
\* try_to_derive_data: the first loop tests them in order and returns at
\* the first that is missing
ExaminedNeighbors(p, step) ==
    LET nb == Neighbors(p, step)
    IN {nb[k] : k \in {i \in 1..4 : \A j \in 1..(i - 1) : isfile(nb[j])}}

\* where a call is inside save_to_disk
Saving == {"chkdir", "mkdir", "open", "dump"}

\* the outcome of the first run with one worker thread, when no call gives
\* up: every point has the file with its own response
C4_OneWorkerOutcome ==
    (run = 1 /\ AllCallsEnded /\ failBudget > MaxApiFailures)
        => \A p \in AllPoints : files[p] = Full(p, nasa[p])

\* C4: the thread-pool tasks are independent: no task reads or writes a
\* file that a different concurrently running task writes, so the files
\* produced do not depend on how the workers interleave: when all calls
\* have ended every point has the file with its own response, as in the
\* run with one worker.
C4_TasksIndependent ==
    /\ \A w, v \in pool :
          (w # v /\ wPc[v] \in Saving)
              => /\ wPc[w] \in Saving => wTask[w].pt # wTask[v].pt
                 /\ wPc[w] \in {"derive", "read", "copy"}
                       => wTask[v].pt \notin ExaminedNeighbors(wTask[w].pt, wTask[w].step)
    /\ AllCallsEnded => \A p \in AllPoints : files[p] = Full(p, nasa[p])

----------------------------------------------------------------------------
(***************************************************************************)
(* The claim about the monthly MOER download (under SpecMoer).             *)
(***************************************************************************)

\* C5: the monthly MOER download uses its files as a memoization cache: it
\* requests exactly the months whose file does not exist, never rewrites an
\* existing month file, and a failed request exits the process while the
\* months already written stay; so after any sequence of failed runs
\* followed by one successful run all 12 files of every region exist and no
\* month was successfully fetched twice.
C5_MoerFilesMemoize ==
    /\ [][\A k \in MoerKeys :
            (k \in mRequested' /\ k \notin mRequested)
                => (k = <<mBa, mMonth>> /\ moerFiles[k] = 0)]_vars
    /\ [][\A k \in MoerKeys :
            moerFiles[k] # 0 => moerFiles'[k] = moerFiles[k]]_vars
    /\ [][(mPc = "loop" /\ MonthFileExists(mBa, mMonth))
              => (mRequested' = mRequested /\ mFetched' = mFetched)]_vars
    /\ [][mPc' = "exited" => moerFiles' = moerFiles]_vars
    /\ [](mPc = "done" => /\ \A k \in MoerKeys : moerFiles[k] # 0
                          /\ mRequested = MoerKeys \ mAtStart)
    /\ [](\A k \in MoerKeys : mFetched[k] <= 1)

\* two runs failed and the third was successful; a file from before the
\* first run is still what it was
C5_SuccessAfterFailedRuns ==
    /\ mRun = MaxMoerRuns
    /\ mFailBudget = 0
    /\ mPc = "done"
    /\ \E k \in MoerKeys : moerFiles[k] = OldData
    /\ \E k \in MoerKeys : moerFiles[k] = 1
    /\ \E k \in MoerKeys : moerFiles[k] = MaxMoerRuns

----------------------------------------------------------------------------
(***************************************************************************)
(* The claims about the sync-file monitor and the test-data writer.        *)
(***************************************************************************)

MonRunning == {"sleeping", "check", "cmd1", "cmd2"}

\* C6 (as stated): no script is a long-lived process: the main flow of
\* restart-monitor.py and of update-file.py reaches termination after a
\* finite number of steps without needing an external signal or an error.
\* Behaviours with an error (a sync file that is missing or invalid) or
\* with a reboot under way are left out of the statement.
C6_EveryScriptTerminates ==
    <>(\/ monPc = "exited" /\ ufPc \in {"off", "ended", "crashed"}
       \/ syncState # "ts"
       \/ rebootPending)

\* C6 (amended): restart-monitor.py is a long-lived process: once in its
\* loop it ends only by a signal, by a fatal sync-file error or by an
\* exception.  The loop of update-file.py's main ends only by an exception
\* (the data file is missing); the script itself never calls main and ends
\* at once.
C6_MonitorIsLongLived ==
    /\ [][(monPc \in MonRunning /\ monPc' = "exited")
              => exitCause' \in {"signal", "fatal", "exception"}]_vars
    /\ [][(exitCause' = "fatal" /\ exitCause # "fatal") => syncState # "ts"]_vars
    /\ [][(exitCause' = "exception" /\ exitCause # "exception")
              => checkDelay < 0]_vars
    /\ [][(ufPc \in {"manage", "sleep"} /\ ufPc' \notin {"manage", "sleep"})
              => (ufPc' = "crashed" /\ ufLines < 0)]_vars
    /\ [][ufPc = "script" => ufPc' \in {"script", "ended"}]_vars

\* the monitor went through the threshold handler and is in its loop again
C6_LoopGoesOnAfterHandler ==
    /\ monPc = "sleeping"
    /\ Len(issued) = 2
    /\ exitCause = "none"

\* C7: the monitor can reboot the system only in production mode: the real
\* kill and reboot commands are executed only when the first argument is
\* "production"; in every other invocation the threshold handler executes
\* only the echo commands that print them.
C7_RealCommandsOnlyInProduction ==
    /\ (ran \cap RealCommands # {}) => argv1 = "production"
    /\ argv1 # "production"
          => ran \subseteq {echo(glow_monitor_kill_cmd), echo(reboot_cmd)}
    /\ rebootPending => argv1 = "production"

\* the threshold handler ran in a testing invocation
C7_TestingHandlerRan ==
    /\ argv1 # "production"
    /\ ran = {echo(glow_monitor_kill_cmd), echo(reboot_cmd)}

\* C8: at every check that reads a timestamp the monitor invokes the
\* threshold handler if and only if the current time minus the timestamp
\* in the sync file is strictly greater than _reboot_delay_sec (86400
\* seconds by default); so a sync file refreshed within the last
\* _reboot_delay_sec seconds never leads to the handler.
C8_HandlerIffThresholdExceeded ==
    /\ [][(MonCheck /\ syncState = "ts")
              => ((monPc' = "cmd1") <=> (syncAge > rebootDelay))]_vars
    /\ [][(monPc' = "cmd1" /\ monPc # "cmd1")
              => (monPc = "check" /\ syncState = "ts" /\ syncAge > rebootDelay)]_vars
    /\ [](argv1 = "absent" => rebootDelay * check_delay_sec = 86400)

\* a check with the default delays finds the timestamp exactly
\* _reboot_delay_sec old
C8_CheckAtExactlyTheDelay ==
    /\ monPc = "check"
    /\ argv1 = "absent"
    /\ syncState = "ts"
    /\ syncAge = rebootDelay

\* C9: the monitor has no reboot loops: it writes the current time to the
\* sync file at startup, so the threshold handler is never invoked earlier
\* than _reboot_delay_sec after the monitor was started, for every check
\* interval, the sync file being written only with the then-current time;
\* so a reboot is never followed by another within _reboot_delay_sec.
C9_NoRebootLoop ==
    /\ monPc \in {"cmd1", "cmd2"} => uptime > rebootDelay
    /\ rebootPending => uptime > rebootDelay
    /\ (monPc \in MonRunning /\ syncState = "ts") => syncAge <= uptime

\* after a reboot the monitor runs again and checks, within the reboot
\* delay, a sync file that nothing but its startup has written
C9_CheckSoonAfterReboot ==
    /\ reboot_cmd \in ran
    /\ ~rebootPending
    /\ monPc = "check"
    /\ uptime <= rebootDelay
    /\ syncState = "ts"
    /\ syncAge = uptime

\* C10: when the threshold is exceeded in production mode the monitor
\* issues the kill -usr2 command first and the reboot command second,
\* never in the other order, and the reboot command is issued whether or
\* not the kill command succeeded.
C10_KillThenReboot ==
    /\ argv1 = "production"
          => issued \in {<<>>, <<glow_monitor_kill_cmd>>,
                         <<glow_monitor_kill_cmd, reboot_cmd>>}
    /\ monPc = "cmd2" => (Len(issued) = 1 /\ ENABLED MonCmd2)
    /\ rebootPending => glow_monitor_kill_cmd \in ran

\* the kill command failed and the reboot command was issued after it
C10_RebootAfterFailedKill ==
    /\ argv1 = "production"
    /\ ~killOk
    /\ issued = <<glow_monitor_kill_cmd, reboot_cmd>>
    /\ rebootPending

----------------------------------------------------------------------------
(***************************************************************************)
(* The claim about the fatal sync-file error (under SpecMonitor).          *)
(***************************************************************************)

\* C11: a missing or invalid sync file is a fatal error of the monitor: when
\* a check finds that the sync file does not exist or that its contents are
\* no valid integer timestamp, the monitor performs no further check, issues
\* no kill or reboot command, and the process ends with exit status 1.
C11_FatalErrorExitsWithStatus1 ==
    /\ [][(MonCheck /\ syncState # "ts")
              => (monPc' = "exited" /\ exitStatus' = 1 /\ ran' = ran)]_vars
    /\ [][(exitCause = "fatal" /\ exitCause' = "fatal")
              => (monPc' = "exited" /\ ran' = ran /\ exitStatus' = exitStatus)]_vars

\* the part of C11 that the code keeps: the check that finds the file
\* missing or invalid is the last one and issues no command
C11_FatalErrorStopsMonitor ==
    /\ [][(MonCheck /\ syncState # "ts")
              => (monPc' = "exited" /\ exitCause' = "fatal" /\ ran' = ran)]_vars
    /\ [][(exitCause = "fatal" /\ exitCause' = "fatal")
              => (monPc' = "exited" /\ ran' = ran /\ exitStatus' = exitStatus)]_vars

\* a check found the sync file missing or invalid and the process has ended
C11_FatalErrorSeen ==
    /\ monPc = "exited"
    /\ exitCause = "fatal"
    /\ syncState \in {"missing", "invalid"}
    /\ exitStatus = 0

----------------------------------------------------------------------------
(***************************************************************************)
(* The MOER histories: load_ba_histories of scripts/watttime/              *)
(* solar_value_map.py fills, for one BA, an array with one slot for each   *)
(* 5-minute interval of 2024 from the entries of the month files.  A       *)
(* timestamp is [month, day, hour, minute] of 2024, in UTC.                *)
(***************************************************************************)
num_intervals == 105264

MaxEntries == 2       \* entries the loop goes through

Year == 2024

IsLeap(y) == (y % 4 = 0 /\ y % 100 # 0) \/ y % 400 = 0

DaysInMonth(y, m) ==
    IF m = 2 THEN (IF IsLeap(y) THEN 29 ELSE 28)
    ELSE IF m \in {4, 6, 9, 11} THEN 30 ELSE 31

\* days of year y in front of month m
RECURSIVE DaysBefore(_, _)
DaysBefore(y, m) ==
    IF m = 1 THEN 0 ELSE DaysBefore(y, m - 1) + DaysInMonth(y, m - 1)

DaysInYear(y) == DaysBefore(y, 12) + DaysInMonth(y, 12)

\* the point_time values tried: the first and the last day of every month,
\* the hours around noon and the ends of the day, the first and the last
\* 5-minute interval of the hour
Timestamps ==
    {[month |-> m, day |-> d, hour |-> h, minute |-> mi] :
        m \in 1..12, d \in 1..31, h \in {0, 11, 12, 23}, mi \in {0, 55}}

EdgeTimestamps ==
    {ts \in Timestamps : ts.day \in {1, DaysInMonth(Year, ts.month)}}

\* total_minutes = int((dt - year_start).total_seconds() // 60)
total_minutes(ts) ==
    ((DaysBefore(Year, ts.month) + ts.day - 1) * 24 + ts.hour) * 60 + ts.minute

\* index = total_minutes // 5
IndexOf(ts) == total_minutes(ts) \div 5

\* an array with a slot for every 5-minute interval of the year
FullYearBounds(index) == 0 <= index /\ index < DaysInYear(Year) * 24 * 12

\* if 0 <= index < num_intervals
InBounds(index) == 0 <= index /\ index < num_intervals

\* one entry of a month file
LoadEntry ==
    /\ hPc = "loading"
    /\ hEntries < MaxEntries
    /\ \E ts \in EdgeTimestamps :
          IF InBounds(IndexOf(ts))
          THEN /\ hArray' = hArray \cup {IndexOf(ts)}
               /\ UNCHANGED hSkipped
          ELSE /\ hSkipped' = hSkipped \cup {ts}
               /\ UNCHANGED hArray
    /\ hEntries' = hEntries + 1
    /\ UNCHANGED hPc
    /\ UNCHANGED notHistVars

\* the loops over the files and their entries have ended
LoadDone ==
    /\ hPc = "loading"
    /\ hPc' = "done"
    /\ UNCHANGED <<hEntries, hArray, hSkipped>>
    /\ UNCHANGED notHistVars

HistNext ==
    \/ LoadEntry
    \/ LoadDone

HistInit ==
    /\ CarbonIdle
    /\ DownloadIdle
    /\ MoerIdle
    /\ MonIdle
    /\ UfIdle
    /\ TokenIdle
    /\ LoginIdle
    /\ SweepIdle
    /\ hPc = "loading"
    /\ hEntries = 0
    /\ hArray = {}
    /\ hSkipped = {}

SpecHistories == HistInit /\ [][HistNext]_vars

\* C12: the per-BA MOER array has one slot for every 5-minute interval of
\* leap year 2024: num_intervals equals 366 * 24 * 12, so every timestamp
\* from 2024-01-01T00:00 to 2024-12-31T23:55 UTC maps to an index in
\* 0..num_intervals-1 and is stored, never skipped as out of bounds.
C12_SlotForEveryInterval ==
    /\ hSkipped = {}
    /\ hEntries = MaxEntries => num_intervals = 366 * 24 * 12

\* the part of C12 that the code keeps: what is stored is stored at an index
\* of the array, and the timestamps up to 2024-12-31T11:55 are stored
C12_StoredInBounds ==
    /\ \A i \in hArray : 0 <= i /\ i < num_intervals
    /\ \A ts \in hSkipped : ts.month = 12 /\ ts.day = 31 /\ ts.hour >= 12

\* an entry for the afternoon of 2024-12-31 was skipped as out of bounds,
\* and one of the morning was stored in the last slot
C12_LastHalfDaySkipped ==
    /\ [month |-> 12, day |-> 31, hour |-> 12, minute |-> 0] \in hSkipped
    /\ (num_intervals - 1) \in hArray

----------------------------------------------------------------------------
(***************************************************************************)
(* The claim about the value of compute_glow_strength (under SpecCarbon).  *)
(***************************************************************************)

\* every hour with a sun value has a key that parses and MOER readings
HoursWellFormed ==
    \A i \in 1..Len(solar) :
        ~solar[i].sun.isNone => (solar[i].keyOk /\ Len(solar[i].moer) > 0)

\* the sums of the weighted average over the hours with a sun value: the
\* sun values, and sun value * mean of the hour's readings (in lbs)
RECURSIVE WeightedSums(_, _)
WeightedSums(s, acc) ==
    IF s = <<>> THEN acc
    ELSE LET h == Head(s) IN
         IF h.sun.isNone
         THEN WeightedSums(Tail(s), acc)
         ELSE WeightedSums(Tail(s),
                  [sun  |-> acc.sun + h.sun.w,
                   moer |-> acc.moer + h.sun.w * MeanMoer(h.moer)])

SolarSums == WeightedSums(solar, [sun |-> 0, moer |-> 0])

Abs(x) == IF x < 0 THEN -x ELSE x

RECURSIVE GCD(_, _)
GCD(a, b) == IF b = 0 THEN a ELSE GCD(b, a % b)

\* the fraction n/d in lowest terms with a positive denominator (d # 0)
Lowest(n, d) ==
    LET g == GCD(Abs(n), Abs(d))
        sg == IF d < 0 THEN -1 ELSE 1
    IN [num |-> sg * (n \div g), den |-> sg * (d \div g)]

\* the weighted average in tons per MWh, as a fraction
AverageInTonsPerMWh == Lowest(SolarSums.moer * 100, SolarSums.sun * 220462)

\* C13: compute_glow_strength returns the sunlight-weighted average, in
\* metric tons of CO2 per MWh, of the hourly MOER: with the hourly MOER the
\* mean of the hour's five-minute values divided by 2204.62, the result
\* equals the sum over the hours with a sun value of (sun * hourly MOER)
\* divided by the sum of the sun values.
C13_WeightedAverageInTonsPerMWh ==
    (glowOut.status = "value" /\ HoursWellFormed)
        => Lowest(glowOut.num, glowOut.den) = AverageInTonsPerMWh

\* what the code returns: 1000 times that average
C13_ThousandTimesTheAverage ==
    (glowOut.status = "value" /\ HoursWellFormed)
        => Lowest(glowOut.num, glowOut.den)
               = Lowest(1000 * AverageInTonsPerMWh.num, AverageInTonsPerMWh.den)

\* a value was returned for two hours of different sun and different MOER
C13_ValueOverTwoHours ==
    /\ glowOut.status = "value"
    /\ HoursWellFormed
    /\ Len(solar) = 2
    /\ ~solar[1].sun.isNone /\ ~solar[2].sun.isNone
    /\ solar[1].sun.w # solar[2].sun.w
    /\ MeanMoer(solar[1].moer) # MeanMoer(solar[2].moer)

----------------------------------------------------------------------------
(***************************************************************************)
(* The WattTime token of the scripts that loop over many requests:         *)
(* sweep.py, heatmap-ba-grid.py and wt_api_hist_from_ba_map.py call        *)
(* get_token once, in front of the loop, and pass the token to every       *)
(* request.  Time is counted in minutes.                                   *)
(***************************************************************************)
token_valid_min == 30

StepMinutes == 15     \* minutes that pass in one step of the clock

MaxPoints == 3        \* items of the loop (coordinates, regions and months)

TokenScripts == {"sweep", "heatmap", "hist"}

\* the API refuses a token older than its validity
TokenExpired(age) == age > token_valid_min

Max(a, b) == IF a >= b THEN a ELSE b

\* get_token, in front of the loop
TkGetToken ==
    /\ tkPc = "start"
    /\ tkAge' = 0
    /\ tkPc' = "loop"
    /\ UNCHANGED <<tkScript, tkPoint, tkUnknown, tkMaxSentAge>>
    /\ UNCHANGED notTokenVars

\* time passes while the loop runs (the NASA requests, the downloads, the
\* sleeps between the API calls)
TkTick ==
    /\ tkPc = "loop"
    /\ ~TokenExpired(tkAge)
    /\ tkAge' = tkAge + StepMinutes
    /\ UNCHANGED <<tkScript, tkPc, tkPoint, tkUnknown, tkMaxSentAge>>
    /\ UNCHANGED notTokenVars

\* one item of the loop: a request with the token in the Authorization
\* header.  With an expired token the API answers with an error status:
\* get_balancing_authority (sweep) and fetch_and_save_historical_data
\* (hist) call sys.exit; get_region_info (heatmap) returns the error body,
\* which has no 'abbrev', and the point is written with ba 'UNKNOWN'.
TkRequest ==
    /\ tkPc = "loop"
    /\ tkPoint < MaxPoints
    /\ tkMaxSentAge' = Max(tkMaxSentAge, tkAge)
    /\ IF ~TokenExpired(tkAge)
       THEN /\ tkPoint' = tkPoint + 1
            /\ UNCHANGED <<tkPc, tkUnknown>>
       ELSE IF tkScript = "heatmap"
       THEN /\ tkPoint' = tkPoint + 1
            /\ tkUnknown' = tkUnknown + 1
            /\ UNCHANGED tkPc
       ELSE /\ tkPc' = "exited"
            /\ UNCHANGED <<tkPoint, tkUnknown>>
    /\ UNCHANGED <<tkScript, tkAge>>
    /\ UNCHANGED notTokenVars

\* the loop has gone through every item
TkLoopEnd ==
    /\ tkPc = "loop"
    /\ tkPoint = MaxPoints
    /\ tkPc' = "done"
    /\ UNCHANGED <<tkScript, tkAge, tkPoint, tkUnknown, tkMaxSentAge>>
    /\ UNCHANGED notTokenVars

TokenNext ==
    \/ TkGetToken
    \/ TkTick
    \/ TkRequest
    \/ TkLoopEnd

TokenInit ==
    /\ CarbonIdle
    /\ DownloadIdle
    /\ MoerIdle
    /\ MonIdle
    /\ UfIdle
    /\ HistIdle
    /\ LoginIdle
    /\ SweepIdle
    /\ tkScript \in TokenScripts
    /\ tkPc = "start"
    /\ tkAge = 0
    /\ tkPoint = 0
    /\ tkUnknown = 0
    /\ tkMaxSentAge = 0

SpecToken == TokenInit /\ [][TokenNext]_vars

\* C14: every process gets a new token at least every 30 minutes: no script
\* sends a WattTime API request carrying a token that was obtained more than
\* 30 minutes earlier, however long its sweep or download loop runs.
C14_NoRequestWithOldToken == tkMaxSentAge <= token_valid_min

\* what the code does: the token is obtained once, in front of the loop,
\* and never again
C14_TokenObtainedOnce ==
    /\ [][tkPc = "loop" => tkAge' >= tkAge]_vars
    /\ [][tkAge' < tkAge => tkPc = "start"]_vars

\* a loop sent its token when it was more than 30 minutes old
C14_OldTokenSent ==
    /\ tkMaxSentAge > token_valid_min
    /\ tkPoint > 0

----------------------------------------------------------------------------
(***************************************************************************)
(* The login script: wt_api_login.py asks the API for a token and writes   *)
(* it to the file 'token'.                                                 *)
(***************************************************************************)
MaxLoginRuns == 3     \* how often the script is started

Tokens == {"t1", "t2", "t3"}

\* what the API answers: a status and, with it, a body that has a 'token'
\* or has none (the body of an error, or a 200 without the key)
LoginAnswers ==
    [status : {200, 401, 500}, token : Tokens \cup {"none"}]

\* login: `if rsp.status_code != 200: return None`
StatusOk(status) == status = 200

\* a script that writes whatever login returned
WritesAnyway(tok) == TRUE

\* __main__: `if tok is not None`
TokIsNotNone(tok) == tok # "none"

\* tok = login(username, password), then `if tok is not None`.  A 200 whose
\* body has no 'token' raises KeyError in login and the script ends with a
\* traceback.
LgLogin ==
    /\ lgPc = "start"
    /\ \E a \in LoginAnswers :
          /\ a.status # 200 => a.token = "none"
          /\ lgStatus' = a.status
          /\ LET tok == IF StatusOk(a.status) THEN a.token ELSE "none"
                 keyError == StatusOk(a.status) /\ a.token = "none"
             IN /\ lgToken' = tok
                /\ lgPc' = IF keyError THEN "crashed"
                           ELSE IF TokIsNotNone(tok) THEN "open" ELSE "failed"
    /\ UNCHANGED <<tokenFile, lgRun, lgBefore>>
    /\ UNCHANGED notLoginVars

\* open('token', 'w'): the file is created, or emptied
LgOpen ==
    /\ lgPc = "open"
    /\ tokenFile' = "empty"
    /\ lgPc' = "write"
    /\ UNCHANGED <<lgStatus, lgToken, lgRun, lgBefore>>
    /\ UNCHANGED notLoginVars

\* f.write(tok) and the close of the file; 'Login ok'.  f.write(None)
\* would raise TypeError and leave the file empty.
LgWrite ==
    /\ lgPc = "write"
    /\ IF lgToken = "none"
       THEN lgPc' = "crashed" /\ UNCHANGED tokenFile
       ELSE lgPc' = "written" /\ tokenFile' = lgToken
    /\ UNCHANGED <<lgStatus, lgToken, lgRun, lgBefore>>
    /\ UNCHANGED notLoginVars

\* the script is run again
LgRunAgain ==
    /\ lgPc \in {"written", "failed", "crashed"}
    /\ lgRun < MaxLoginRuns
    /\ lgRun' = lgRun + 1
    /\ lgPc' = "start"
    /\ lgStatus' = 0
    /\ lgToken' = "none"
    /\ lgBefore' = tokenFile
    /\ UNCHANGED tokenFile
    /\ UNCHANGED notLoginVars

LoginNext ==
    \/ LgLogin
    \/ LgOpen
    \/ LgWrite
    \/ LgRunAgain

LoginInit ==
    /\ CarbonIdle
    /\ DownloadIdle
    /\ MoerIdle
    /\ MonIdle
    /\ UfIdle
    /\ HistIdle
    /\ TokenIdle
    /\ SweepIdle
    /\ lgPc = "start"
    /\ lgStatus = 0
    /\ lgToken = "none"
    /\ tokenFile \in {"absent", "old"}
    /\ lgRun = 1
    /\ lgBefore = tokenFile

SpecLogin == LoginInit /\ [][LoginNext]_vars

\* C15: the login script writes the 'token' file only after a successful
\* login (HTTP 200), replacing any previous contents with exactly the new
\* token; after a failed login an existing token file is left unchanged and
\* no token file is created.
C15_TokenFileOnlyAfterLogin ==
    /\ [][tokenFile' # tokenFile
              => (lgStatus = 200 /\ lgToken \in Tokens /\ lgStatus' = 200)]_vars
    /\ [](lgPc = "written" => (lgStatus = 200 /\ tokenFile = lgToken))
    /\ [](lgPc \in {"failed", "crashed"} => tokenFile = lgBefore)
    /\ [](lgPc = "failed" => lgStatus # 200)
    /\ []((lgPc \in {"start", "open"}) => tokenFile = lgBefore)

\* a failed login has left the token that the run before it wrote in place
C15_FailedLoginKeepsToken ==
    /\ lgPc = "failed"
    /\ lgRun = 2
    /\ lgStatus = 401
    /\ tokenFile \in Tokens
    /\ tokenFile = lgBefore

----------------------------------------------------------------------------
(***************************************************************************)
(* The sweep: sweep.py goes through the grid row by row, sweep_threads.py  *)
(* submits every coordinate to a thread pool.  A grid point is <<i, j>>:   *)
(* latitude lat_min + i * granularity, longitude lon_min + j *             *)
(* granularity of the original sweep.                                      *)
(***************************************************************************)
SweepLatMax == 1      \* index of the last latitude of the grid

SweepLonMax == 2      \* index of the last longitude of the grid

MaxSweepRuns == 2     \* how often the script is started

SweepPoints == (0..SweepLatMax) \X (0..SweepLonMax)

NoPoint == <<-1, -1>>

\* what the APIs answer for the points: "ok" (a BA, data), "unsupported"
\* (ba-from-loc answers 404), "nasa403" (the NASA API answers 403: its body
\* has no data and processing it raises an exception), "wt403" (ba-from-loc
\* answers 403).  At most one point is not "ok".
SweepKinds ==
    {[p \in SweepPoints |-> "ok"]}
    \cup {[p \in SweepPoints |-> IF p = q THEN k ELSE "ok"] :
              q \in SweepPoints, k \in {"unsupported", "nasa403", "wt403"}}

\* the coordinates main goes through after get_last_coordinates returned
\* last: sweep.py sets lat_min, lon_min = last_coordinates and starts every
\* row at lon_min; sweep_threads.py sets lat_min only
ResumeSet(which, last) ==
    IF last = NoPoint THEN SweepPoints
    ELSE IF which = "sweep"
    THEN {p \in SweepPoints : p[1] >= last[1] /\ p[2] >= last[2]}
    ELSE {p \in SweepPoints : p[1] >= last[1]}

\* the coordinate of todo that the nested while loops reach first
FirstOf(todo) ==
    CHOOSE p \in todo :
        \A q \in todo : p[1] < q[1] \/ (p[1] = q[1] /\ p[2] <= q[2])

\* main up to the loop: the header, the token, get_last_coordinates
SwStart ==
    /\ swPc = "start"
    /\ swTodo' = ResumeSet(swScript, swLast)
    /\ swPc' = "loop"
    /\ UNCHANGED <<swScript, swKind, swRun, swPrev, swRows, swLast, swDoomed>>
    /\ UNCHANGED notSweepVars

\* one coordinate (the body of the inner loop of sweep.py,
\* process_coordinate of sweep_threads.py, whose workers take the
\* coordinates in any order).  get_balancing_authority answers 404 with
\* None and any other error status with sys.exit: SystemExit is no
\* Exception, so `except Exception` does not catch it.  In sweep.py the
\* process ends there; in sweep_threads.py the future keeps it.
SwProcess ==
    /\ swPc = "loop"
    /\ \E p \in swTodo :
          /\ swScript = "sweep" => p = FirstOf(swTodo)
          /\ swTodo' = swTodo \ {p}
          /\ IF swKind[p] = "ok"
             THEN /\ swRows' = [swRows EXCEPT ![p] = @ + 1]
                  /\ swLast' = p
                  /\ UNCHANGED <<swPc, swDoomed>>
             ELSE IF swKind[p] \in {"unsupported", "nasa403"}
             THEN UNCHANGED <<swRows, swLast, swPc, swDoomed>>
             ELSE IF swScript = "sweep"
             THEN /\ swPc' = "exited"
                  /\ UNCHANGED <<swRows, swLast, swDoomed>>
             ELSE /\ swDoomed' = TRUE
                  /\ UNCHANGED <<swRows, swLast, swPc>>
    /\ UNCHANGED <<swScript, swKind, swRun, swPrev>>
    /\ UNCHANGED notSweepVars

\* the loops have ended.  In sweep_threads.py future.result() raises the
\* SystemExit of a worker again, `except Exception` does not catch it, and
\* the process exits once the pool has shut down.
SwLoopEnd ==
    /\ swPc = "loop"
    /\ swTodo = {}
    /\ swPc' = IF swDoomed THEN "exited" ELSE "done"
    /\ UNCHANGED <<swScript, swKind, swRun, swPrev, swTodo, swRows, swLast,
                   swDoomed>>
    /\ UNCHANGED notSweepVars

\* the run is interrupted (the process is killed)
SwInterrupt ==
    /\ swPc = "loop"
    /\ swTodo # {}
    /\ swPc' = "interrupted"
    /\ UNCHANGED <<swScript, swKind, swRun, swPrev, swTodo, swRows, swLast,
                   swDoomed>>
    /\ UNCHANGED notSweepVars

\* the script is started again
SwRestart ==
    /\ swPc \in {"interrupted", "exited"}
    /\ swRun < MaxSweepRuns
    /\ swRun' = swRun + 1
    /\ swPrev' = swPc
    /\ swPc' = "start"
    /\ swTodo' = {}
    /\ swDoomed' = FALSE
    /\ UNCHANGED <<swScript, swKind, swRows, swLast>>
    /\ UNCHANGED notSweepVars

SweepNext ==
    \/ SwStart
    \/ SwProcess
    \/ SwLoopEnd
    \/ SwInterrupt
    \/ SwRestart

\* the first start: no CSV file yet
SweepInit ==
    /\ CarbonIdle
    /\ DownloadIdle
    /\ MoerIdle
    /\ MonIdle
    /\ UfIdle
    /\ HistIdle
    /\ TokenIdle
    /\ LoginIdle
    /\ swScript \in {"sweep", "threads"}
    /\ swKind \in SweepKinds
    /\ swPc = "start"
    /\ swRun = 1
    /\ swPrev = "none"
    /\ swTodo = {}
    /\ swRows = [p \in SweepPoints |-> 0]
    /\ swLast = NoPoint
    /\ swDoomed = FALSE

SpecSweep == SweepInit /\ [][SweepNext]_vars

\* C16: the sweep resumes from the last coordinates in the CSV: after a run
\* that was interrupted at any point, followed by a restarted run that
\* completes, every supported grid point of the original sweep has exactly
\* one row in carbon_credits_sweep.csv: no remaining grid point is skipped
\* and no already saved point is saved again.
C16_ResumeSavesEachPointOnce ==
    (swRun = 2 /\ swPrev = "interrupted" /\ swPc = "done")
        => \A p \in SweepPoints : swKind[p] = "ok" => swRows[p] = 1

\* what holds without an interruption: a first run that completes saves
\* every supported point once
C16_FirstRunSavesEachPointOnce ==
    (swRun = 1 /\ swPc = "done")
        => \A p \in SweepPoints : swRows[p] = (IF swKind[p] = "ok" THEN 1 ELSE 0)

\* sweep.py was interrupted in the first row and its restarted run has
\* completed: the last saved point has two rows, a point of the next row
\* west of it has none
C16_DuplicateAndSkippedPoint ==
    /\ swScript = "sweep"
    /\ swRun = 2
    /\ swPrev = "interrupted"
    /\ swPc = "done"
    /\ \A p \in SweepPoints : swKind[p] = "ok"
    /\ swRows[<<0, 1>>] = 2
    /\ swRows[<<1, 0>>] = 0


\* the step processes the coordinate p
Processes(p) == SwProcess /\ p \in swTodo /\ p \notin swTodo'

\* C17: in the sweep scripts a 403 Forbidden answer for one coordinate only
\* skips that coordinate: the error is handled inside the processing of
\* that coordinate (no row is written, nothing is left pending), the sweep
\* continues with the next coordinate, and the process does not exit
\* because of it.
C17_ForbiddenOnlySkipsCoordinate ==
    [][\A p \in SweepPoints :
          (Processes(p) /\ swKind[p] \in {"nasa403", "wt403"})
              => /\ swPc' = "loop"
                 /\ swDoomed' = FALSE
                 /\ swRows' = swRows
                 /\ swLast' = swLast]_vars

\* what holds: a 403 of the NASA API only skips the coordinate, and without
\* a 403 of ba-from-loc no run exits
C17_NasaForbiddenOnlySkips ==
    [][/\ \A p \in SweepPoints :
             (Processes(p) /\ swKind[p] = "nasa403")
                 => /\ swPc' = "loop"
                    /\ swDoomed' = swDoomed
                    /\ swRows' = swRows
                    /\ swLast' = swLast
       /\ (\A p \in SweepPoints : swKind[p] # "wt403") => swPc' # "exited"]_vars

\* ba-from-loc answered 403 for a coordinate and sweep.py has exited with
\* coordinates left
C17_ForbiddenEndedSweep ==
    /\ swScript = "sweep"
    /\ swPc = "exited"
    /\ swTodo # {}
    /\ \E p \in SweepPoints : swKind[p] = "wt403" /\ p \notin swTodo

====
